---- MODULE Spec2Model ----
(***************************************************************************)
(* Model of the PocketBase Python SDK (pocketbase_sdk.py): the AuthStore,  *)
(* the request mediator PocketBase._send_request, the authentication       *)
(* operations of Auth and Admin, and the pagination loop of                *)
(* Collection.get_full_list.  The remote server and the HTTP transport are *)
(* the environment: every request draws its outcome from a bounded set.    *)
(***************************************************************************)
EXTENDS Integers, Sequences, FiniteSets, TLC

VARIABLES
    token, model, is_admin,  \* AuthStore fields
    pc,                      \* "idle", or "get_full_list" while its loop runs
    page, result,            \* locals of Collection.get_full_list
    log,                     \* requests of the latest call, with their outcomes
    ret,                     \* how the latest call ended, or that it is running
    writes,                  \* the last AuthStore write and the flag before it
    tpc, targs, tres         \* threads of the unsynchronised scenario

vars == <<token, model, is_admin, pc, page, result, log, ret,
          writes, tpc, targs, tres>>

threadVars == <<tpc, targs, tres>>

----------------------------------------------------------------------------
(* Bounds *)

MaxPages == 3

----------------------------------------------------------------------------
(* Python values *)

\* {} : the empty dict
EmptyMap == [k \in {} |-> ""]

\* identity records, as sets of (key, value) pairs; {} is the empty record
NoModel == {}
UserRecord == {<<"id", "u1">>}
AdminRecord == {<<"id", "a1">>}

\* None for PocketBaseException.status_code; a status s is <<s>>
None == <<>>

\* dict.get(key, default)
Get(d, key, default) == IF key \in DOMAIN d THEN d[key] ELSE default

\* bool(x) of a str and of a dict
TruthyStr(s) == s # ""
TruthyDict(m) == m # NoModel

----------------------------------------------------------------------------
(* The environment: what the transport returns for one request *)

Tokens == {"t1", "t2"}

Statuses == {101, 200, 204, 304, 404, 500}

IsSuccess(status) == 200 <= status /\ status < 300

AuthBody(K, t) ==
    [k \in K |-> CASE k = "token" -> t
                   [] k = "record" -> UserRecord
                   [] k = "admin" -> AdminRecord]

AuthBodies ==
    {AuthBody(K, t) :
        K \in {{}, {"token"}, {"record"}, {"token", "record"},
               {"token", "admin"}},
        t \in Tokens}

ListBody(K, items, tp) ==
    [k \in K |-> CASE k = "items" -> items [] k = "totalPages" -> tp]

ListBodies ==
    {EmptyMap}
    \cup {ListBody({"items", "totalPages"}, items, tp) :
            items \in {<<"r1">>, <<"r2">>}, tp \in 0..MaxPages}

RecordBody == [k \in {"id"} |-> "r1"]
ErrorBody == [k \in {"message"} |-> "Something went wrong."]

\* what response.json() raises on a body that is not JSON: with
\* requests >= 2.27 a requests.exceptions.JSONDecodeError, which is a
\* RequestException; with older versions a ValueError that is not
JsonErrors == {"RequestException", "ValueError"}

Response(status, json, body, json_error) ==
    [recv |-> TRUE, status |-> status, json |-> json, body |-> body,
     json_error |-> json_error]

NoResponse ==
    [recv |-> FALSE, status |-> 0, json |-> FALSE, body |-> EmptyMap,
     json_error |-> "RequestException"]

\* no response at all; a response whose body is not JSON; a success response
\* with one of the bodies; any other response with a JSON error body
Outcomes(bodies, statuses) ==
    {NoResponse}
    \cup {Response(s, FALSE, EmptyMap, e) : s \in statuses, e \in JsonErrors}
    \cup {Response(s, TRUE, b, "RequestException") :
            s \in {x \in statuses : IsSuccess(x)}, b \in bodies}
    \cup {Response(s, TRUE, ErrorBody, "RequestException") :
            s \in {x \in statuses : ~IsSuccess(x)}}

AuthOutcomes == Outcomes(AuthBodies, {200, 401})
ListOutcomes == Outcomes(ListBodies, {200, 404})
PlainOutcomes == Outcomes({RecordBody}, {200, 404})
DeleteOutcomes == Outcomes({EmptyMap}, {204, 404})
HealthOutcomes == Outcomes({EmptyMap}, Statuses)

----------------------------------------------------------------------------
(* AuthStore *)

save_drops_model(t, m, a) == [token |-> t, model |-> NoModel, is_admin |-> a]

save(t, m, a) == [token |-> t, model |-> m, is_admin |-> a]

clear == [token |-> "", model |-> NoModel, is_admin |-> FALSE]

is_valid == TruthyStr(token) /\ TruthyDict(model)

AuthStoreInit == [token |-> "", model |-> NoModel, is_admin |-> FALSE]

store == [token |-> token, model |-> model, is_admin |-> is_admin]

\* Auth.get_token / Auth.get_model
get_token == token
get_model == model

\* Admin.is_authenticated / Admin.is_super_admin
is_authenticated == is_valid /\ is_admin
is_super_admin == IF ~is_authenticated THEN FALSE ELSE TRUE

----------------------------------------------------------------------------
(* PocketBase._send_request *)

HeadersAlways(tok) == [k \in {"Authorization"} |-> "Bearer " \o tok]

\* the headers dict built before the request is made
Headers(tok) ==
    IF TruthyStr(tok)
    THEN [k \in {"Authorization"} |-> "Bearer " \o tok]
    ELSE EmptyMap

Ok(value) ==
    [kind |-> "ok", status_code |-> None, data |-> EmptyMap, value |-> value]

PocketBaseException(status_code, data) ==
    [kind |-> "PocketBaseException", status_code |-> status_code,
     data |-> data, value |-> EmptyMap]

ValueError ==
    [kind |-> "ValueError", status_code |-> None, data |-> EmptyMap,
     value |-> EmptyMap]

\* Response.raise_for_status raises HTTPError for 4xx and 5xx only
RaisesHTTPError(status) == 400 <= status /\ status < 600

\* the try block and its two handlers, for one transport outcome o
SendRequest(o) ==
    IF ~o.recv
    THEN PocketBaseException(None, EmptyMap)
    ELSE IF RaisesHTTPError(o.status)
    THEN PocketBaseException(<<o.status>>, IF o.json THEN o.body ELSE EmptyMap)
    ELSE IF o.status = 204
    THEN Ok(EmptyMap)
    ELSE IF o.json
    THEN Ok(o.body)
    ELSE IF o.json_error = "RequestException"
    THEN PocketBaseException(None, EmptyMap)
    ELSE ValueError

\* what is handed to requests.request
Request(method, endpoint, pg) ==
    [method |-> method, endpoint |-> endpoint, page |-> pg,
     headers |-> Headers(token)]

Returned(op, r, value) ==
    [op |-> op, kind |-> r.kind, status_code |-> r.status_code,
     value |-> IF r.kind = "ok" THEN value ELSE EmptyMap]

\* one request of a call: what was sent, what came back, how it ended
Exchange(req, o, r) == [request |-> req, outcome |-> o, kind |-> r.kind]

Written(op) == [last |-> op, was_admin |-> is_admin]

----------------------------------------------------------------------------
(* Auth and Admin *)

AfterAuthenticateAlways(cur, r) ==
    save(Get(r.value, "token", ""), Get(r.value, "record", NoModel), FALSE)

\* AuthStore after Auth.authenticate_with_password got r from _send_request
AfterAuthenticate(cur, r) ==
    IF r.kind = "ok"
    THEN save(Get(r.value, "token", ""), Get(r.value, "record", NoModel), FALSE)
    ELSE cur

AfterRefreshKeepsAdmin(cur, r) ==
    IF r.kind = "ok"
    THEN save(Get(r.value, "token", ""), Get(r.value, "record", NoModel),
              cur.is_admin)
    ELSE cur

\* AuthStore after Auth.refresh_token got r from _send_request
AfterRefresh(cur, r) ==
    IF r.kind = "ok"
    THEN save(Get(r.value, "token", ""), Get(r.value, "record", NoModel), FALSE)
    ELSE cur

\* AuthStore after Admin.authenticate_with_password got r from _send_request
AfterAdminAuthenticate(cur, r) ==
    IF r.kind = "ok"
    THEN save(Get(r.value, "token", ""), Get(r.value, "admin", NoModel), TRUE)
    ELSE cur

AuthCall(op, endpoint, o, after) ==
    LET r == SendRequest(o) IN
    /\ pc = "idle"
    /\ log' = <<Exchange(Request("POST", endpoint, 0), o, r)>>
    /\ token' = after.token
    /\ model' = after.model
    /\ is_admin' = after.is_admin
    /\ ret' = Returned(op, r, r.value)
    /\ writes' = IF r.kind = "ok" THEN Written(op) ELSE writes
    /\ UNCHANGED <<pc, page, result, threadVars>>

authenticate_with_password ==
    \E o \in AuthOutcomes :
        AuthCall("authenticate_with_password",
                 "collections/users/auth-with-password", o,
                 AfterAuthenticate(store,
                     SendRequest(o)))

refresh_token ==
    \E o \in AuthOutcomes :
        AuthCall("refresh_token", "auth/refresh", o,
                 AfterRefresh(store,
                     SendRequest(o)))

admin_authenticate_with_password ==
    \E o \in AuthOutcomes :
        AuthCall("admin_authenticate_with_password",
                 "_superusers/auth-with-password", o,
                 AfterAdminAuthenticate(store,
                     SendRequest(o)))

\* Auth.clear
auth_clear ==
    /\ pc = "idle"
    /\ token' = clear.token
    /\ model' = clear.model
    /\ is_admin' = clear.is_admin
    /\ ret' = [op |-> "clear", kind |-> "ok", status_code |-> None,
               value |-> EmptyMap]
    /\ writes' = Written("clear")
    /\ log' = <<>>
    /\ UNCHANGED <<pc, page, result, threadVars>>

----------------------------------------------------------------------------
(* Collection and the convenience operations of PocketBase *)

\* an operation that is one _send_request call and returns value on success
PlainCall(op, method, endpoint, o, returnsTrue) ==
    LET r == SendRequest(o) IN
    /\ pc = "idle"
    /\ log' = <<Exchange(Request(method, endpoint, 0), o, r)>>
    /\ ret' = Returned(op, r, IF returnsTrue THEN TRUE ELSE r.value)
    /\ UNCHANGED <<token, model, is_admin, pc, page, result, writes, threadVars>>

get_list ==
    \E o \in PlainOutcomes :
        PlainCall("get_list", "GET", "collections/posts/records", o, FALSE)

get_one ==
    \E o \in PlainOutcomes :
        PlainCall("get_one", "GET", "collections/posts/records/r1", o, FALSE)

create ==
    \E o \in PlainOutcomes :
        PlainCall("create", "POST", "collections/posts/records", o, FALSE)

update ==
    \E o \in PlainOutcomes :
        PlainCall("update", "PATCH", "collections/posts/records/r1", o, FALSE)

delete ==
    \E o \in DeleteOutcomes :
        PlainCall("delete", "DELETE", "collections/posts/records/r1", o, TRUE)

send_reset_password_email ==
    \E o \in PlainOutcomes :
        PlainCall("send_reset_password_email", "POST",
                  "collections/users/request-password-reset", o, TRUE)

confirm_verification ==
    \E o \in PlainOutcomes :
        PlainCall("confirm_verification", "POST",
                  "collections/users/confirm-verification", o, TRUE)

confirm_password_reset ==
    \E o \in PlainOutcomes :
        PlainCall("confirm_password_reset", "POST",
                  "collections/users/confirm-password-reset", o, TRUE)

health ==
    \E o \in HealthOutcomes : PlainCall("health", "GET", "health", o, FALSE)

\* Collection.filter builds a new Collection and sends nothing
filter ==
    /\ pc = "idle"
    /\ ret' = [op |-> "filter", kind |-> "ok", status_code |-> None,
               value |-> EmptyMap]
    /\ log' = <<>>
    /\ UNCHANGED <<token, model, is_admin, pc, page, result, writes, threadVars>>

----------------------------------------------------------------------------
(* Collection.get_full_list *)

LastPageStrict(pg, response) == pg > Get(response, "totalPages", 0)

\* the loop's exit test after the response for page pg
LastPage(pg, response) == pg >= Get(response, "totalPages", 0)

\* result.extend(response.get("items", []))
Extend(res, response) == res \o Get(response, "items", <<>>)

ReturnPartial(res, r) ==
    [op |-> "get_full_list", kind |-> "ok", status_code |-> None,
     value |-> res, returned |-> TRUE]

\* how get_full_list ends when the page request raised r: the exception
\* leaves the loop and the function, the accumulated list is dropped
Propagate(res, r) ==
    [op |-> "get_full_list", kind |-> r.kind, status_code |-> r.status_code,
     value |-> <<>>, returned |-> FALSE]

\* result = [] ; page = 1
get_full_list_start ==
    /\ pc = "idle"
    /\ pc' = "get_full_list"
    /\ result' = <<>>
    /\ page' = 1
    /\ log' = <<>>
    /\ ret' = [op |-> "get_full_list", kind |-> "running",
               status_code |-> None, value |-> <<>>, returned |-> FALSE]
    /\ UNCHANGED <<token, model, is_admin, writes, threadVars>>

\* one iteration of the while loop
get_full_list_page ==
    \E o \in ListOutcomes :
        LET r == SendRequest(o) IN
        /\ pc = "get_full_list"
        /\ log' = Append(log,
                Exchange(Request("GET", "collections/posts/records", page),
                         o, r))
        /\ IF r.kind = "ok"
           THEN IF LastPage(page, r.value)
                THEN /\ ret' = [op |-> "get_full_list", kind |-> "ok",
                                status_code |-> None,
                                value |-> Extend(result, r.value),
                                returned |-> TRUE]
                     /\ pc' = "idle"
                     /\ page' = 0
                     /\ result' = <<>>
                ELSE /\ result' = Extend(result, r.value)
                     /\ page' = page + 1
                     /\ UNCHANGED <<pc, ret>>
           ELSE /\ ret' = Propagate(result, r)
                /\ pc' = "idle"
                /\ page' = 0
                /\ result' = <<>>
        /\ UNCHANGED <<token, model, is_admin, writes, threadVars>>

----------------------------------------------------------------------------
(* Sequential use of one client *)

Init ==
    /\ token = AuthStoreInit.token
    /\ model = AuthStoreInit.model
    /\ is_admin = AuthStoreInit.is_admin
    /\ pc = "idle"
    /\ page = 0
    /\ result = <<>>
    /\ log = <<>>
    /\ ret = [op |-> "__init__", kind |-> "ok", status_code |-> None,
              value |-> EmptyMap]
    /\ writes = [last |-> "__init__", was_admin |-> FALSE]
    /\ tpc = <<"off", "off">>
    /\ targs = <<AuthStoreInit, AuthStoreInit>>
    /\ tres = <<"off", "off">>

Next ==
    \/ authenticate_with_password
    \/ refresh_token
    \/ admin_authenticate_with_password
    \/ auth_clear
    \/ get_list
    \/ get_one
    \/ create
    \/ update
    \/ delete
    \/ send_reset_password_email
    \/ confirm_verification
    \/ confirm_password_reset
    \/ health
    \/ filter
    \/ get_full_list_start
    \/ get_full_list_page

Spec == Init /\ [][Next]_vars

----------------------------------------------------------------------------
(* Two threads authenticating on one client without a lock.  AuthStore.save *)
(* is three attribute assignments; a thread switch may fall between them.   *)

Threads == {1, 2}

ThreadMethods == {"authenticate_with_password",
                  "admin_authenticate_with_password"}

\* the arguments the method passes to AuthStore.save
SaveArgs(method, r) ==
    IF method = "authenticate_with_password"
    THEN AfterAuthenticate(store, r)
    ELSE AfterAdminAuthenticate(store, r)

\* _send_request returns or raises in thread t
thread_send_request(t) ==
    \E method \in ThreadMethods, o \in AuthOutcomes :
        LET r == SendRequest(o) IN
        /\ tpc[t] = "start"
        /\ tres' = [tres EXCEPT ![t] = r.kind]
        /\ IF r.kind = "ok"
           THEN /\ targs' = [targs EXCEPT ![t] = SaveArgs(method, r)]
                /\ tpc' = [tpc EXCEPT ![t] = "save_token"]
           ELSE /\ tpc' = [tpc EXCEPT ![t] = "done"]
                /\ UNCHANGED targs
        /\ UNCHANGED <<token, model, is_admin, pc, page, result, log, ret,
                       writes>>

\* self.token = token
thread_save_token(t) ==
    /\ tpc[t] = "save_token"
    /\ token' = targs[t].token
    /\ tpc' = [tpc EXCEPT ![t] = "save_model"]
    /\ UNCHANGED <<model, is_admin, pc, page, result, log, ret, writes, targs, tres>>

thread_save_model_skipped(t) ==
    /\ tpc[t] = "save_model"
    /\ tpc' = [tpc EXCEPT ![t] = "save_is_admin"]
    /\ UNCHANGED <<token, model, is_admin, pc, page, result, log, ret, writes, targs, tres>>

\* self.model = model
thread_save_model(t) ==
    /\ tpc[t] = "save_model"
    /\ model' = targs[t].model
    /\ tpc' = [tpc EXCEPT ![t] = "save_is_admin"]
    /\ UNCHANGED <<token, is_admin, pc, page, result, log, ret, writes, targs, tres>>

\* self.is_admin = is_admin
thread_save_is_admin(t) ==
    /\ tpc[t] = "save_is_admin"
    /\ is_admin' = targs[t].is_admin
    /\ tpc' = [tpc EXCEPT ![t] = "done"]
    /\ UNCHANGED <<token, model, pc, page, result, log, ret, writes, targs, tres>>

InitConc ==
    /\ token = AuthStoreInit.token
    /\ model = AuthStoreInit.model
    /\ is_admin = AuthStoreInit.is_admin
    /\ pc = "idle"
    /\ page = 0
    /\ result = <<>>
    /\ log = <<>>
    /\ ret = [op |-> "__init__", kind |-> "ok", status_code |-> None,
              value |-> EmptyMap]
    /\ writes = [last |-> "__init__", was_admin |-> FALSE]
    /\ tpc = <<"start", "start">>
    /\ targs = <<AuthStoreInit, AuthStoreInit>>
    /\ tres = <<"pending", "pending">>

NextConc ==
    \/ \E t \in Threads : thread_send_request(t)
    \/ \E t \in Threads : thread_save_token(t)
    \/ \E t \in Threads : thread_save_model(t)
    \/ \E t \in Threads : thread_save_is_admin(t)

SpecConc == InitConc /\ [][NextConc]_vars

----------------------------------------------------------------------------
(* Properties *)

LastExchange == log[Len(log)]

AuthOps == {"authenticate_with_password", "admin_authenticate_with_password",
            "refresh_token"}

OtherOps == {"get_list", "get_one", "create", "update", "delete",
             "get_full_list", "filter", "send_reset_password_email",
             "confirm_verification", "confirm_password_reset", "health"}

\* C1: after a successful user authenticate_with_password whose response
\* holds a non-empty token and a non-empty record, is_valid is true and
\* get_token() / get_model() return exactly that token and record; after
\* clear(), is_valid is false, get_token() is "" and get_model() is {}.
C1_AuthThenClear ==
    /\ (/\ ret.op = "authenticate_with_password"
        /\ ret.kind = "ok"
        /\ Get(LastExchange.outcome.body, "token", "") # ""
        /\ Get(LastExchange.outcome.body, "record", NoModel) # NoModel)
       => /\ is_valid
          /\ get_token = LastExchange.outcome.body["token"]
          /\ get_model = LastExchange.outcome.body["record"]
    /\ ret.op = "clear"
       => /\ ~is_valid
          /\ get_token = ""
          /\ get_model = NoModel

C1_Witness ==
    /\ ret.op = "authenticate_with_password"
    /\ ret.kind = "ok"
    /\ writes.last = "authenticate_with_password"
    /\ writes.was_admin
    /\ token = "t2"
    /\ model = UserRecord
    /\ is_valid

\* C2: after a successful admin authenticate_with_password the AuthStore
\* holds the received token and identity with the privileged flag set and
\* Admin.is_authenticated() is true, whether the identity arrives under the
\* key "admin" or under the key "record".
C2_AdminBothShapes ==
    LET body == LastExchange.outcome.body
        identity == IF "admin" \in DOMAIN body
                    THEN body["admin"]
                    ELSE Get(body, "record", NoModel)
    IN (/\ ret.op = "admin_authenticate_with_password"
        /\ ret.kind = "ok"
        /\ Get(body, "token", "") # ""
        /\ identity # NoModel)
       => /\ token = body["token"]
          /\ model = identity
          /\ is_admin
          /\ is_authenticated

\* C3: every request is sent without an Authorization header when the
\* AuthStore token is empty at that moment, and otherwise with exactly
\* Authorization: Bearer <token> for the token held at that moment.
C3_BearerHeader ==
    [][log' # <<>> =>
        LET headers == log'[Len(log')].request.headers IN
        IF token = ""
        THEN "Authorization" \notin DOMAIN headers
        ELSE /\ DOMAIN headers = {"Authorization"}
             /\ headers["Authorization"] = "Bearer " \o token]_vars

C3_Witness ==
    /\ ret.op = "get_one"
    /\ writes.last = "refresh_token"
    /\ token = "t2"
    /\ "Authorization" \in DOMAIN LastExchange.request.headers
    /\ LastExchange.request.headers["Authorization"] = "Bearer t2"

RECURSIVE ConcatItems(_)
ConcatItems(entries) ==
    IF entries = <<>>
    THEN <<>>
    ELSE Get(Head(entries).outcome.body, "items", <<>>)
         \o ConcatItems(Tail(entries))

Max(a, b) == IF a >= b THEN a ELSE b

\* every response so far succeeded and reported totalPages = n
ConstantTotalPages(n) ==
    \A i \in 1..Len(log) :
        /\ log[i].kind = "ok"
        /\ "totalPages" \in DOMAIN log[i].outcome.body
        /\ log[i].outcome.body["totalPages"] = n

\* C4: against a server that reports the same totalPages = N on every page
\* and never fails, get_full_list asks for pages 1, 2, ..., max(1, N) in
\* that order, exactly max(1, N) requests, and returns the concatenation of
\* the fetched items in page order; for N = 0 that is one request and an
\* empty list.
C4_FullListPages ==
    (ret.op = "get_full_list" /\ log # <<>>) =>
        \A n \in 0..MaxPages :
            ConstantTotalPages(n) =>
                /\ \A i \in 1..Len(log) : log[i].request.page = i
                /\ Len(log) <= Max(1, n)
                /\ ret.returned <=> Len(log) = Max(1, n)
                /\ ret.returned => ret.value = ConcatItems(log)

C4_Witness ==
    /\ ret.op = "get_full_list"
    /\ ret.returned
    /\ ConstantTotalPages(3)
    /\ Len(log) = 3
    /\ ret.value = <<"r2", "r1", "r2">>

\* C5: for every response whose status is outside 2xx (1xx and 3xx that
\* reach the client as well as 4xx and 5xx) _send_request raises a
\* PocketBaseException whose status_code is the received status.
C5_NonSuccessRaises ==
    (/\ pc = "idle"
     /\ log # <<>>
     /\ LastExchange.outcome.recv
     /\ ~IsSuccess(LastExchange.outcome.status))
    => /\ ret.kind = "PocketBaseException"
       /\ ret.status_code = <<LastExchange.outcome.status>>

\* C6: a PocketBaseException raised by _send_request has a status code
\* exactly when a response was received for the request, also when the
\* body of that response is not JSON.
C6_StatusIffResponse ==
    (/\ pc = "idle"
     /\ log # <<>>
     /\ ret.kind = "PocketBaseException")
    => (ret.status_code # None <=> LastExchange.outcome.recv)

\* C7: token, model and is_admin are left as they were by an authentication
\* or refresh call that fails and by every other operation except clear().
C7_Frame ==
    [][/\ (ret'.op \in AuthOps /\ ret'.kind # "ok")
          => UNCHANGED <<token, model, is_admin>>
       /\ ret'.op \in OtherOps
          => UNCHANGED <<token, model, is_admin>>]_vars

C7_Witness ==
    /\ ret.op = "authenticate_with_password"
    /\ ret.kind = "PocketBaseException"
    /\ ret.status_code = <<401>>
    /\ writes.last = "admin_authenticate_with_password"
    /\ token = "t1"
    /\ model = AdminRecord
    /\ is_admin

\* C8: when a page request of get_full_list fails, on the first page or a
\* later one, that exception ends the call: nothing is returned, not even
\* the items of the earlier pages, and no page is requested after the
\* failing one.
C8_FullListFailure ==
    ret.op = "get_full_list" =>
        /\ \A i \in 1..(Len(log) - 1) : log[i].kind = "ok"
        /\ (log # <<>> /\ LastExchange.kind # "ok") =>
              /\ pc = "idle"
              /\ ret.kind = LastExchange.kind
              /\ ret.status_code =
                    (IF LastExchange.outcome.recv
                        /\ RaisesHTTPError(LastExchange.outcome.status)
                     THEN <<LastExchange.outcome.status>>
                     ELSE None)
              /\ ~ret.returned
              /\ ret.value = <<>>

C8_Witness ==
    /\ ret.op = "get_full_list"
    /\ ret.kind = "PocketBaseException"
    /\ Len(log) = 3
    /\ ConcatItems(SubSeq(log, 1, 2)) = <<"r1", "r2">>
    /\ ~ret.returned

BothSaved == \A t \in Threads : tpc[t] = "done" /\ tres[t] = "ok"

\* C9 as stated: once two concurrent successful authentication calls have
\* completed, token, model and is_admin all come from one and the same call.
C9_NoMixture == BothSaved => \E t \in Threads : store = targs[t]

\* C9 amended: once both calls have completed, each of token, model and
\* is_admin is the value one of the two calls passed to save.
C9_PerField ==
    BothSaved =>
        /\ \E t \in Threads : token = targs[t].token
        /\ \E t \in Threads : model = targs[t].model
        /\ \E t \in Threads : is_admin = targs[t].is_admin

C9_Witness ==
    /\ BothSaved
    /\ \A t \in Threads : store # targs[t]
    /\ token = "t1"
    /\ model = AdminRecord

\* C10: the privileged flag is true exactly when the most recent operation
\* that wrote the AuthStore was a successful admin authenticate_with_password;
\* a successful refresh_token in an admin session resets it, so
\* Admin.is_authenticated() is false although a token is held.
C10_PrivilegedFlag ==
    /\ is_admin <=> writes.last = "admin_authenticate_with_password"
    /\ (writes.last = "refresh_token" /\ writes.was_admin)
       => ~is_admin /\ ~is_authenticated

C10_Witness ==
    /\ writes.last = "refresh_token"
    /\ writes.was_admin
    /\ ret.op = "refresh_token"
    /\ token = "t1"
    /\ model = UserRecord
    /\ ~is_admin
    /\ ~is_authenticated

====
